---- MODULE Spec2Model ----
(***************************************************************************)
(* Model of webflow-brand-filter.js: the module-level activeFilters state, *)
(* the page elements the script reads and writes (filter container,        *)
(* checkboxes, brand items, results count, "no results" message), the      *)
(* event handlers and public API, and the delayed callbacks of hideItem.   *)
(***************************************************************************)
EXTENDS Integers, Sequences, FiniteSets, TLC

(* ------------------------------- bounds -------------------------------- *)
\* number of brand items on the page is 0..MaxItems
MaxItems == 3
\* at most MaxPending hideItem callbacks are outstanding at a time
MaxPending == 2

(* ---------------------------- configuration ---------------------------- *)
CONFIG_industries ==
  << "Children's", "Home Services", "Entertainment", "Food & Beverage",
     "Employment & Staffing", "Pet Services", "Beauty", "Health & Wellness",
     "Automotive" >>

CONFIG_investments == << "Under $250K", "$250K-$500K", "$500k+" >>

\* own properties of the CONFIG.investmentMapping object literal
investmentMappingKeys ==
  { "Under $150K", "$150K-$250K", "$250K-$500K", "$500k+" }

investmentMappingOwn(key) ==
  CASE key = "Under $150K" -> << "Under $250K" >>
    [] key = "$150K-$250K" -> << "Under $250K" >>
    [] key = "$250K-$500K" -> << "$250K-$500K" >>
    [] key = "$500k+"      -> << "$500k+" >>

\* property names every object literal inherits from Object.prototype; a
\* bracket lookup with one of them yields a function or object, not an array
ObjectPrototypeKeys ==
  { "constructor", "toString", "valueOf", "hasOwnProperty", "__proto__" }

(* ------------------------------ JS values ------------------------------ *)
Range(s) == { s[k] : k \in 1..Len(s) }

\* Array.prototype.includes
Includes(arr, v) == \E k \in 1..Len(arr) : arr[k] = v

\* Array.prototype.filter(x => x !== v)
FilterOut(arr, v) == SelectSeq(arr, LAMBDA x : x # v)

\* DOM text: a core text possibly surrounded by white space
Text(t) == [pad |-> FALSE, text |-> t]
Padded(t) == [pad |-> TRUE, text |-> t]
\* String.prototype.trim
trim(raw) == raw.text
\* truthiness of a string: the empty string is the only falsy one
TruthyText(raw) == raw.pad \/ raw.text # ""

(* ------------------------------ the page ------------------------------- *)
\* A brand item: the data-industry / data-investment attribute (a sequence
\* of length 0 when the attribute is missing) and the texts of the nested
\* [data-category-industry] / [data-category-investment] elements.
ItemCatalogue ==
  << [ industryAttr   |-> << >>,
       industryRefs   |-> << Text("Food & Beverage"), Padded("Entertainment") >>,
       investmentAttr |-> << Text("Under $150K") >>,
       investmentRefs |-> << >> ],
     [ industryAttr   |-> << Text("Children's") >>,
       industryRefs   |-> << >>,
       investmentAttr |-> << Text("") >>,
       investmentRefs |-> << Text("$150K-$250K"), Text("constructor") >> ],
     [ industryAttr   |-> << Padded("Automotive") >>,
       industryRefs   |-> << Text("Beauty") >>,
       investmentAttr |-> << >>,
       investmentRefs |-> << Padded("$250K-$500K") >> ],
     [ industryAttr   |-> << >>,
       industryRefs   |-> << >>,
       investmentAttr |-> << Text("Over $1M") >>,
       investmentRefs |-> << >> ] >>

Item(k) == ItemCatalogue[((k - 1) % Len(ItemCatalogue)) + 1]

Checkbox(f, v) == [filter |-> f, value |-> v]

\* the checkboxes generateFilterUI writes into the container
GeneratedCheckboxes ==
  { Checkbox("industry", CONFIG_industries[k]) : k \in 1..Len(CONFIG_industries) }
  \cup
  { Checkbox("investment", CONFIG_investments[k]) : k \in 1..Len(CONFIG_investments) }

\* the checkboxes of a page whose designer filled the container by hand
HostCheckboxes ==
  { Checkbox("industry", "Food & Beverage"), Checkbox("industry", "Automotive"),
    Checkbox("investment", "Under $250K") }

\* page layouts: the state of the filter container, whether the page has a
\* [data-no-results] element (shown by default) and a [data-results-count]
Layouts ==
  { [container |-> "empty",  noResults |-> "absent", count |-> TRUE],
    [container |-> "filled", noResults |-> "",       count |-> TRUE],
    [container |-> "filled", noResults |-> "absent", count |-> FALSE],
    [container |-> "none",   noResults |-> "",       count |-> TRUE] }

(* ------------------------------- inputs -------------------------------- *)
\* the checkboxes a visitor clicks
ToggleInputs ==
  { Checkbox("industry", "Food & Beverage"), Checkbox("investment", "Under $250K") }

\* a property of the object passed to setFilters
Undefined == [kind |-> "undefined"]
Str(s) == [kind |-> "string", str |-> s]
List(a) == [kind |-> "array", arr |-> a]

SetFiltersInputs ==
  { [industry |-> List(<< "Food & Beverage", "Automotive" >>),
     investment |-> List(<< "Under $250k" >>)],
    [industry |-> Undefined, investment |-> Str("$250K-$500K")],
    [industry |-> Str(""), investment |-> Undefined],
    [industry |-> List(<< >>), investment |-> List(<< "Under $250K" >>)] }

VARIABLES
  pc,               \* position of the script: "start", "waiting", "ready"
  container,        \* "none", "empty" or "filled"
  checkboxes,       \* the filter checkboxes in the document
  checked,          \* the checkboxes whose checked property is true
  listeners,        \* the checkboxes with handleFilterChange attached
  noResultsDisplay, \* style.display of [data-no-results], or "absent"
  countEl,          \* [present, text] of [data-results-count]
  activeFilters,    \* [industry, investment], two arrays of strings
  n,                \* number of [data-brand-item] elements
  classList,        \* per item, its brand-filter-* classes
  display,          \* per item, style.display
  timers,           \* per item, the pending hideItem callbacks
  lastPass,         \* what the latest applyFilters call did
  lastCount,        \* argument of the latest updateResultsCount call
  lastNoResults,    \* argument of the latest toggleNoResults call
  lastOp,           \* the operation that produced this state
  lastArg           \* the argument, when lastOp is a setFilters call

vars == << pc, container, checkboxes, checked, listeners, noResultsDisplay,
           countEl, activeFilters, n, classList, display, timers, lastPass,
           lastCount, lastNoResults, lastOp, lastArg >>

pageVars == << container, checkboxes, listeners, n >>

Items == 1..n

HIDDEN == "brand-filter-hidden"
VISIBLE == "brand-filter-visible"

RECURSIVE Sum(_, _)
Sum(f, k) == IF k = 0 THEN 0 ELSE f[k] + Sum(f, k - 1)

NoPass == [ran |-> FALSE, completed |-> FALSE, shown |-> {}, hid |-> {}]


(* ------------------------ reading an item's values --------------------- *)
\* getItemIndustries / getItemInvestments: the attribute when it is a
\* non-empty string, else the nested elements' texts, each trimmed
getItemValues(attr, refs) ==
  IF Len(attr) > 0 /\ TruthyText(attr[1])
    THEN << trim(attr[1]) >>
    ELSE IF Len(refs) > 0
      THEN [k \in 1..Len(refs) |-> trim(refs[k])]
      ELSE << >>

getItemIndustries(item) == getItemValues(item.industryAttr, item.industryRefs)

getItemInvestments(item) == getItemValues(item.investmentAttr, item.investmentRefs)

(* ----------------------------- range mapping --------------------------- *)
JsUndefined == [isArray |-> FALSE, defined |-> FALSE, items |-> << >>]
JsObject == [isArray |-> FALSE, defined |-> TRUE, items |-> << >>]
JsArray(a) == [isArray |-> TRUE, defined |-> TRUE, items |-> a]

\* CONFIG.investmentMapping[key]: an own property, else a property inherited
\* from Object.prototype, else undefined
investmentMappingLookup(key) ==
  IF key \in investmentMappingKeys THEN JsArray(investmentMappingOwn(key))
  ELSE IF key \in ObjectPrototypeKeys THEN JsObject
  ELSE JsUndefined

mapInvestmentToRanges(cmsValue) ==
  IF Includes(CONFIG_investments, cmsValue)
    THEN JsArray(<< cmsValue >>)
    ELSE LET looked == investmentMappingLookup(cmsValue)
         IN  IF looked.defined THEN looked ELSE JsArray(<< >>)

(* ------------------------------ matching ------------------------------- *)
matchesIndustry(af, item) ==
  \/ Len(af.industry) = 0
  \/ \E k \in 1..Len(getItemIndustries(item)) :
        Includes(af.industry, getItemIndustries(item)[k])

\* itemInvestments.some(inv => mapInvestmentToRanges(inv).some(...)), value
\* by value from position k: "true" at the first value with a selected
\* range, "throw" at a value whose ranges have no some method
RECURSIVE someInvestment(_, _, _)
someInvestment(af, vals, k) ==
  IF k > Len(vals) THEN "false"
  ELSE LET ranges == mapInvestmentToRanges(vals[k])
       IN  IF ~ranges.isArray THEN "throw"
           ELSE IF \E j \in 1..Len(ranges.items) :
                      Includes(af.investment, ranges.items[j])
             THEN "true"
             ELSE someInvestment(af, vals, k + 1)

matchesInvestment(af, item) ==
  IF Len(af.investment) = 0 THEN "true"
  ELSE someInvestment(af, getItemInvestments(item), 1)

(* --------------------------- showing and hiding ------------------------ *)
showItem(st, k) ==
  [st EXCEPT !.display[k] = "",
             !.classList[k] = (@ \ {HIDDEN}) \cup {VISIBLE},
             !.shown = @ \cup {k},
             !.hid = @ \ {k}]

hideItem(st, k) ==
  [st EXCEPT !.classList[k] = (@ \ {VISIBLE}) \cup {HIDDEN},
             !.timers[k] = @ + 1,
             !.shown = @ \ {k},
             !.hid = @ \cup {k}]

\* a callback that hides without looking at the item's class
hideCallbackUnchecked(cl, d) == "none"

\* the callback hideItem hands to setTimeout: the item's display afterwards
hideCallback(cl, d) == IF HIDDEN \in cl THEN "none" ELSE d

updateResultsCount(el, count) ==
  IF el.present THEN [el EXCEPT !.text = << count >>] ELSE el

toggleNoResults(nrd, show) ==
  IF nrd # "absent" THEN (IF show THEN "block" ELSE "none") ELSE nrd

(* ------------------------------ applyFilters --------------------------- *)
\* the items.forEach loop from item k on; it stops where a callback throws
RECURSIVE applyItems(_, _, _)
applyItems(af, k, st) ==
  IF k > n THEN [st EXCEPT !.completed = TRUE]
  ELSE LET item == Item(k)
           mInd == matchesIndustry(af, item)
           mInv == matchesInvestment(af, item)
       IN  IF mInv = "throw" THEN st
           ELSE IF mInd /\ mInv = "true"
             THEN applyItems(af, k + 1,
                             [showItem(st, k) EXCEPT !.visibleCount = @ + 1])
             ELSE applyItems(af, k + 1, hideItem(st, k))

passResult(af) ==
  applyItems(af, 1, [classList |-> classList, display |-> display,
                     timers |-> timers, visibleCount |-> 0,
                     shown |-> {}, hid |-> {}, completed |-> FALSE])

\* one call of applyFilters with the filters af and the "no results"
\* element in state nrd
applyFilters(af, nrd) ==
  LET r == passResult(af)
      show == r.visibleCount = 0 /\ (Len(af.industry) > 0 \/ Len(af.investment) > 0)
  IN  /\ Sum(r.timers, n) <= MaxPending
      /\ classList' = r.classList
      /\ display' = r.display
      /\ timers' = r.timers
      /\ lastPass' = [ran |-> TRUE, completed |-> r.completed,
                      shown |-> r.shown, hid |-> r.hid]
      /\ IF r.completed
           THEN /\ lastCount' = << r.visibleCount >>
                /\ countEl' = updateResultsCount(countEl, r.visibleCount)
                /\ lastNoResults' = << show >>
                /\ noResultsDisplay' = toggleNoResults(nrd, show)
           ELSE /\ lastCount' = lastCount
                /\ countEl' = countEl
                /\ lastNoResults' = lastNoResults
                /\ noResultsDisplay' = nrd

(* ----------------------------- initial state --------------------------- *)
NoArg == [industry |-> Undefined, investment |-> Undefined]

Init ==
  \E layout \in Layouts, count \in 0..MaxItems :
    /\ pc = "start"
    /\ container = layout.container
    /\ checkboxes = IF layout.container = "filled" THEN HostCheckboxes ELSE {}
    /\ checked = {}
    /\ listeners = {}
    /\ noResultsDisplay = layout.noResults
    /\ countEl = [present |-> layout.count, text |-> << >>]
    /\ activeFilters = [industry |-> << >>, investment |-> << >>]
    /\ n = count
    /\ classList = [k \in 1..count |-> {}]
    /\ display = [k \in 1..count |-> ""]
    /\ timers = [k \in 1..count |-> 0]
    /\ lastPass = NoPass
    /\ lastCount = << >>
    /\ lastNoResults = << >>
    /\ lastOp = "none"
    /\ lastArg = NoArg

(* ------------------------------ setup / init --------------------------- *)
\* a setup that goes on whether or not the container exists
setupProceedsAlways(c) == TRUE

\* the guard of setup: it returns early without a filter container
setupProceeds(c) == c # "none"

setup ==
  IF setupProceeds(container)
    THEN /\ container' = "filled"
         /\ checkboxes' = IF container = "empty"
                            THEN checkboxes \cup GeneratedCheckboxes
                            ELSE checkboxes
         /\ listeners' = checkboxes'
         /\ applyFilters(activeFilters,
                         IF container = "empty" THEN "none" ELSE noResultsDisplay)
         /\ UNCHANGED << checked, activeFilters, n >>
    ELSE UNCHANGED << container, checkboxes, checked, listeners,
                      noResultsDisplay, countEl, activeFilters, n, classList,
                      display, timers, lastPass, lastCount, lastNoResults >>

\* init() while the document is still loading: setup waits for the event
initDeferred ==
  /\ pc = "start"
  /\ pc' = "waiting"
  /\ lastOp' = "init"
  /\ lastArg' = NoArg
  /\ UNCHANGED << container, checkboxes, checked, listeners, noResultsDisplay,
                  countEl, activeFilters, n, classList, display, timers,
                  lastPass, lastCount, lastNoResults >>

\* init() once the document is parsed: setup runs at once
initImmediate ==
  /\ pc = "start"
  /\ pc' = "ready"
  /\ lastOp' = "setup"
  /\ lastArg' = NoArg
  /\ setup

DOMContentLoaded ==
  /\ pc = "waiting"
  /\ pc' = "ready"
  /\ lastOp' = "setup"
  /\ lastArg' = NoArg
  /\ setup

(* ----------------------------- event handlers -------------------------- *)
handleFilterChange(af, c, isChecked) ==
  IF isChecked
    THEN IF ~Includes(af[c.filter], c.value)
           THEN [af EXCEPT ![c.filter] = Append(@, c.value)]
           ELSE af
    ELSE [af EXCEPT ![c.filter] = FilterOut(@, c.value)]

\* a visitor clicks a checkbox that has the change listener
change(c) ==
  /\ pc # "start"
  /\ c \in checkboxes /\ c \in listeners
  /\ checked' = IF c \in checked THEN checked \ {c} ELSE checked \cup {c}
  /\ activeFilters' = handleFilterChange(activeFilters, c, c \in checked')
  /\ applyFilters(activeFilters', noResultsDisplay)
  /\ lastOp' = "change"
  /\ lastArg' = NoArg
  /\ UNCHANGED << pc, pageVars >>

\* a visitor clicks a checkbox before any listener is attached to it
click(c) ==
  /\ pc # "start"
  /\ c \in checkboxes /\ c \notin listeners
  /\ checked' = IF c \in checked THEN checked \ {c} ELSE checked \cup {c}
  /\ lastOp' = "click"
  /\ lastArg' = NoArg
  /\ UNCHANGED << pc, pageVars, noResultsDisplay, countEl, activeFilters,
                  classList, display, timers, lastPass, lastCount,
                  lastNoResults >>

(* ------------------------------- public API ---------------------------- *)
\* truthiness of a property of the setFilters argument
Truthy(x) == x.kind = "array" \/ (x.kind = "string" /\ x.str # "")

\* Array.isArray(x) ? x : [x]
asArray(x) == IF x.kind = "array" THEN x.arr ELSE << x.str >>

setSelection(old, x) == IF Truthy(x) THEN asArray(x) ELSE old

\* checkbox.checked = activeFilters[...].includes(checkbox.value), for all
syncCheckboxes(af) == { c \in checkboxes : Includes(af[c.filter], c.value) }

setFilters(filters) ==
  /\ pc # "start"
  /\ activeFilters' =
       [industry   |-> setSelection(activeFilters.industry, filters.industry),
        investment |-> setSelection(activeFilters.investment, filters.investment)]
  /\ checked' = syncCheckboxes(activeFilters')
  /\ applyFilters(activeFilters', noResultsDisplay)
  /\ lastOp' = "setFilters"
  /\ lastArg' = filters
  /\ UNCHANGED << pc, pageVars >>

getActiveFilters == [industry |-> activeFilters.industry,
                     investment |-> activeFilters.investment]

\* the public clearAllFilters, also the click handler of the clear button
clearAllFilters ==
  /\ pc # "start"
  /\ activeFilters' = [industry |-> << >>, investment |-> << >>]
  /\ checked' = {}
  /\ applyFilters(activeFilters', noResultsDisplay)
  /\ lastOp' = "clearAllFilters"
  /\ lastArg' = NoArg
  /\ UNCHANGED << pc, pageVars >>

\* the public applyFilters
reapply ==
  /\ pc # "start"
  /\ applyFilters(activeFilters, noResultsDisplay)
  /\ lastOp' = "applyFilters"
  /\ lastArg' = NoArg
  /\ UNCHANGED << pc, pageVars, checked, activeFilters >>

(* -------------------------------- timers ------------------------------- *)
\* one pending hideItem callback of item k runs
timerFires(k) ==
  /\ timers[k] > 0
  /\ timers' = [timers EXCEPT ![k] = @ - 1]
  /\ display' = [display EXCEPT ![k] = hideCallback(classList[k], @)]
  /\ lastOp' = "timer"
  /\ lastArg' = NoArg
  /\ UNCHANGED << pc, pageVars, checked, noResultsDisplay, countEl,
                  activeFilters, classList, lastPass, lastCount,
                  lastNoResults >>

Next ==
  \/ initDeferred
  \/ initImmediate
  \/ DOMContentLoaded
  \/ \E c \in ToggleInputs : change(c)
  \/ \E c \in ToggleInputs : click(c)
  \/ \E f \in SetFiltersInputs : setFilters(f)
  \/ clearAllFilters
  \/ reapply
  \/ \E k \in Items : timerFires(k)

Spec == Init /\ [][Next]_vars

TypeOK ==
  /\ pc \in {"start", "waiting", "ready"}
  /\ container \in {"none", "empty", "filled"}
  /\ checked \subseteq checkboxes
  /\ listeners \subseteq checkboxes
  /\ n \in 0..MaxItems
  /\ \A k \in Items : timers[k] \in 0..MaxPending
  /\ Sum(timers, n) <= MaxPending

(* =============================== claims =============================== *)
SelIndustry == Range(activeFilters.industry)
SelInvestment == Range(activeFilters.investment)
IndustryOptions == Range(CONFIG_industries)
InvestmentOptions == Range(CONFIG_investments)

\* the filter ranges a raw investment value stands for: itself when it is a
\* filter option, else its entry in the mapping table, else none
Expansion(v) ==
  IF v \in InvestmentOptions THEN << v >>
  ELSE IF v \in investmentMappingKeys THEN investmentMappingOwn(v)
  ELSE << >>

\* the matching predicate: open category or one value selected, in both
ShouldShow(i) ==
  /\ \/ SelIndustry = {}
     \/ Range(getItemIndustries(Item(i))) \cap SelIndustry # {}
  /\ \/ SelInvestment = {}
     \/ \E v \in Range(getItemInvestments(Item(i))) :
           Range(Expansion(v)) \cap SelInvestment # {}

\* C1: after any pass, every item is shown by the latest pass exactly when
\* it matches the industry selection (or that is empty) and the investment
\* selection after range mapping (or that is empty).
C1_ShownIffMatches ==
  lastPass.ran => \A i \in Items : (i \in lastPass.shown) <=> ShouldShow(i)

\* C2: for every raw investment value of an item the evaluation uses,
\* mapInvestmentToRanges gives [v] for an option, else the table's list, else
\* the empty list, and raises no error; under the selection {"Under $250K"}
\* a value "Under $150K" or "$150K-$250K" is shown, "$250K-$500K" hidden.
C2_MappingTotal ==
  (lastPass.ran /\ SelInvestment # {}) =>
    /\ \A i \in Items : \A v \in Range(getItemInvestments(Item(i))) :
          mapInvestmentToRanges(v) = JsArray(Expansion(v))
    /\ lastPass.completed
    /\ (SelInvestment = {"Under $250K"} /\ SelIndustry = {}) =>
          \A i \in Items :
            LET vals == getItemInvestments(Item(i))
            IN  /\ vals \in { << "Under $150K" >>, << "$150K-$250K" >> }
                     => i \in lastPass.shown
                /\ vals = << "$250K-$500K" >> => i \notin lastPass.shown

\* C3: after every pass the "no results" signal is on exactly when the pass
\* showed no item and one of the selections is non-empty.
C3_NoResultsIff ==
  lastPass.ran =>
    ( lastNoResults = << TRUE >>
        <=> (lastPass.shown = {} /\ (SelIndustry # {} \/ SelInvestment # {})) )

\* the state clearAllFilters is to restore
Cleared ==
  /\ activeFilters = [industry |-> << >>, investment |-> << >>]
  /\ checked = {}
  /\ \A i \in Items : /\ display[i] = ""
                      /\ VISIBLE \in classList[i]
                      /\ HIDDEN \notin classList[i]
  /\ lastPass.shown = Items
  /\ lastNoResults = << FALSE >>
  /\ noResultsDisplay \in {"absent", "none"}

\* C4: clearAllFilters, from any state, leaves both selections empty, every
\* checkbox unchecked, every item shown and "no results" off, and the hide
\* callbacks that fire afterwards do not undo any of it.
C4_ClearRestoresAll ==
  /\ [](lastOp = "clearAllFilters" => Cleared)
  /\ [][(Cleared /\ lastOp' = "timer") => Cleared']_vars

\* clearAllFilters has just run while hide callbacks were still pending
C4_Witness ==
  /\ lastOp = "clearAllFilters"
  /\ \E i \in Items : timers[i] > 0
  /\ checkboxes # {}

\* C5: each selection holds only values of its category's option list.
C5_SelectionsAreOptions ==
  /\ SelIndustry \subseteq IndustryOptions
  /\ SelInvestment \subseteq InvestmentOptions

\* the list a supplied property of the setFilters argument stands for
Supplied(x) == x.kind # "undefined"
AsList(x) == IF x.kind = "array" THEN x.arr ELSE << x.str >>

\* C6: setFilters replaces the selection of exactly the categories its
\* argument supplies (a string as a one-element list), leaves the others,
\* sets every checkbox to membership of its value in the new selection,
\* re-evaluates all items, and getActiveFilters returns the new selections.
C6_SetFiltersFrame ==
  [][ lastOp' = "setFilters" =>
        /\ \A cat \in {"industry", "investment"} :
              activeFilters'[cat] = IF Supplied(lastArg'[cat])
                                      THEN AsList(lastArg'[cat])
                                      ELSE activeFilters[cat]
        /\ \A c \in checkboxes' :
              c \in checked' <=> c.value \in Range(activeFilters'[c.filter])
        /\ lastPass'.completed
        /\ lastPass'.shown \cup lastPass'.hid = 1..n
        /\ getActiveFilters' = activeFilters' ]_vars

\* what setup may not touch when it finds no filter container
setupFrame == << container, checkboxes, checked, listeners, noResultsDisplay,
                 countEl, activeFilters, n, classList, display, timers,
                 lastPass, lastCount, lastNoResults >>

\* C7: without a filter container setup changes nothing (no UI, no
\* listeners, no selection, no visibility, count or "no results" change),
\* and a pass over zero items completes and reports the count 0.
C7_NoContainerNoOp ==
  /\ [][(container = "none" /\ lastOp' = "setup") => UNCHANGED setupFrame]_vars
  /\ []((n = 0 /\ lastPass.ran) =>
          (lastPass.completed /\ lastCount = << 0 >>))

\* setup has run on a page without container, and a pass ran over no items
C7_Witness ==
  /\ pc = "ready"
  /\ container = "none"
  /\ n = 0
  /\ lastOp = "applyFilters"
  /\ lastPass.ran

\* C8: after every pass the reported count is the number of items that the
\* pass showed.
C8_CountIsShown ==
  lastPass.ran => lastCount = << Cardinality(lastPass.shown) >>

\* C9: a checkbox is checked exactly when its value is in the selection of
\* its category.
C9_CheckboxesAgree ==
  \A c \in checkboxes :
    c \in checked <=> c.value \in Range(activeFilters[c.filter])

\* C10: a hide callback never sets display:none on an item the most recent
\* pass showed, and once no callback is pending an item has display:none
\* exactly when the most recent pass hid it.
C10_StaleCallbacks ==
  /\ [][lastOp' = "timer" =>
          \A i \in lastPass.shown : display'[i] # "none"]_vars
  /\ []((lastPass.ran /\ \A i \in Items : timers[i] = 0) =>
          \A i \in Items : display[i] = "none" <=> i \in lastPass.hid)

(* ------------------ passes that run to completion ------------------- *)
\* A pass that runs to the end shows exactly the matching items, hides the
\* others, and reports the number shown and the "no results" condition.
CompletedPassIsExact ==
  lastPass.completed =>
    /\ \A i \in Items : (i \in lastPass.shown) <=> ShouldShow(i)
    /\ lastPass.hid = Items \ lastPass.shown
    /\ lastCount = << Cardinality(lastPass.shown) >>
    /\ lastNoResults = << lastPass.shown = {}
                          /\ (SelIndustry # {} \/ SelInvestment # {}) >>
    /\ countEl.present => countEl.text = lastCount
    /\ noResultsDisplay # "absent" =>
         (noResultsDisplay = "block" <=> lastNoResults = << TRUE >>)

\* A pass stops early only at an item with an investment value that names a
\* property inherited from Object.prototype.
AbortOnlyOnInheritedKey ==
  (lastPass.ran /\ ~lastPass.completed) =>
    \E i \in Items : \E v \in Range(getItemInvestments(Item(i))) :
       v \in ObjectPrototypeKeys

\* An item's display is "none" only if it carries the hidden class, and with
\* no callback pending exactly if it does.
DisplayFollowsClass ==
  \A i \in Items :
    /\ display[i] = "none" => HIDDEN \in classList[i]
    /\ timers[i] = 0 => (HIDDEN \in classList[i] => display[i] = "none")

====
